---- MODULE Spec2Model ----
(***************************************************************************)
(* A model of pymonga/_pymongo/son.py: the SON ordered document (a dict    *)
(* subclass that keeps a hidden list of keys), its conversion to plain     *)
(* containers (to_dict) and its decoder from an element tree (from_xml).   *)
(*                                                                         *)
(* Python values are records tagged by "kind".  A SON object is            *)
(*   [kind |-> "SON", __keys |-> <list of keys>, dict |-> <the dict part>] *)
(* where "dict" is the state of the dict base class (a function from the   *)
(* stored keys to their values) and "__keys" is the SON's private list.    *)
(* A call either returns or raises: an outcome is                          *)
(*   [self |-> the receiver afterwards, exc |-> <<>> or <<type, arg>>,     *)
(*    val |-> <<>> (None), <<v>> or <<k, v>>]                              *)
(***************************************************************************)
EXTENDS Integers, Sequences, FiniteSets, TLC

VARIABLES
    son,       \* the SON object the calls are made on
    ret,       \* the last call: its name, its key and its outcome
    before,    \* history: <<j, k>> when j and k are stored and j was
               \* inserted (while absent) earlier than k
    xml,       \* from_xml: the parsed element tree handed to the decoder
    decoded,   \* from_xml: the outcome of the decode
    value,     \* to_dict: the SON the conversion is applied to
    converted  \* to_dict: what to_dict returned

vars == <<son, ret, before, xml, decoded, value, converted>>

----------------------------------------------------------------------------
(* Bounds of the container model *)

\* the keys the calls draw from (strings, as the documents' keys are)
Keys == {"a", "b", "c"}

\* the values stored under them
Values == {1, 2}

\* the keys the pairs handed to update and SON(...) draw from
ArgKeys == {"a", "b"}

\* the longest sequence handed to update / SON(...)
MaxLen == 2

----------------------------------------------------------------------------
(* Outcomes of a call *)

NoExc == <<>>

Ok(self, val) == [self |-> self, exc |-> NoExc, val |-> val]

Raise(self, type, arg) == [self |-> self, exc |-> <<type, arg>>, val |-> <<>>]

Raised(out, type) == out.exc # NoExc /\ out.exc[1] = type

----------------------------------------------------------------------------
(* The dict base class and the list of keys *)

EmptyDict == [k \in {} |-> 0]

\* dict.__getitem__(self, key): self[key], SON does not override it
dict__getitem__(self, key) ==
    IF key \in DOMAIN self.dict
    THEN Ok(self, <<self.dict[key]>>)
    ELSE Raise(self, "KeyError", key)

\* dict.__setitem__(self, key, value)
dict__setitem__(self, key, val) ==
    [self EXCEPT !.dict = [k \in (DOMAIN self.dict) \cup {key} |->
                              IF k = key THEN val ELSE self.dict[k]]]

\* dict.__delitem__(self, key)
dict__delitem__(self, key) ==
    IF key \in DOMAIN self.dict
    THEN Ok([self EXCEPT !.dict = [k \in (DOMAIN self.dict) \ {key} |-> self.dict[k]]],
            <<>>)
    ELSE Raise(self, "KeyError", key)

\* key in list
list_contains(list, key) == \E i \in 1..Len(list) : list[i] = key

\* the position of the first occurrence of key in list
list_index(list, key) ==
    CHOOSE i \in 1..Len(list) :
        list[i] = key /\ \A j \in 1..(i - 1) : list[j] # key

\* list.remove(key) on a list that holds key: drops its first occurrence
list_remove(list, key) ==
    LET i == list_index(list, key)
    IN  SubSeq(list, 1, i - 1) \o SubSeq(list, i + 1, Len(list))

----------------------------------------------------------------------------
(* class SON(dict) *)

\* the object before __init__ has loaded anything
SON_empty == [kind |-> "SON", __keys |-> <<>>, dict |-> EmptyDict]

\* keys(self): a copy of the private list
keys(self) == self.__keys

__contains__(self, key) == list_contains(keys(self), key)

has_key(self, key) == list_contains(keys(self), key)

__len__(self) == Len(keys(self))

\* a set that moves a key that is present to the end of the list
__setitem__moving(self, key, val) ==
    LET others == IF __contains__(self, key)
                  THEN list_remove(self.__keys, key) ELSE self.__keys
    IN  dict__setitem__([self EXCEPT !.__keys = Append(others, key)], key, val)

__setitem__(self, key, val) ==
    LET appended == IF ~__contains__(self, key)
                    THEN [self EXCEPT !.__keys = Append(self.__keys, key)]
                    ELSE self
    IN  dict__setitem__(appended, key, val)

\* a delete that leaves the list of keys alone
__delitem__dict_only(self, key) == dict__delitem__(self, key)

__delitem__(self, key) ==
    IF ~list_contains(self.__keys, key)
    THEN Raise(self, "ValueError", "list.remove(x): x not in list")
    ELSE dict__delitem__([self EXCEPT !.__keys = list_remove(self.__keys, key)], key)

\* iteritems(self): the pairs the generator yields, and the exception that
\* ends it when a listed key has no stored value
RECURSIVE iteritems_from(_, _)
iteritems_from(self, i) ==
    IF i > Len(keys(self)) THEN [pairs |-> <<>>, exc |-> NoExc]
    ELSE LET got == dict__getitem__(self, keys(self)[i])
         IN  IF got.exc # NoExc THEN [pairs |-> <<>>, exc |-> got.exc]
             ELSE LET rest == iteritems_from(self, i + 1)
                  IN  [pairs |-> << <<keys(self)[i], got.val[1]>> >> \o rest.pairs,
                       exc |-> rest.exc]

iteritems(self) == iteritems_from(self, 1)

\* items(self) = list(self.iteritems())
items(self) == iteritems(self).pairs

\* values(self) = [v for _, v in self.iteritems()]
values(self) == [i \in 1..Len(items(self)) |-> items(self)[i][2]]

\* get(self, key, default)
get(self, key, default) ==
    LET got == dict__getitem__(self, key)
    IN  IF got.exc # NoExc THEN default ELSE got.val[1]

\* clear(self): del self[key] for each key of a copy of the list
RECURSIVE clear_from(_, _)
clear_from(self, ks) ==
    IF ks = <<>> THEN Ok(self, <<>>)
    ELSE LET out == __delitem__(self, Head(ks))
         IN  IF out.exc # NoExc THEN out ELSE clear_from(out.self, Tail(ks))

clear(self) == clear_from(self, keys(self))

setdefault(self, key, default) ==
    LET got == dict__getitem__(self, key)
    IN  IF got.exc = NoExc THEN got
        ELSE Ok(__setitem__(self, key, default), <<default>>)

\* pop(self, key, *args)
pop(self, key, args) ==
    IF Len(args) > 1
    THEN Raise(self, "TypeError", "pop expected at most 2 arguments")
    ELSE LET got == dict__getitem__(self, key)
         IN  IF got.exc # NoExc
             THEN IF args # <<>> THEN Ok(self, <<args[1]>>) ELSE got
             ELSE LET out == __delitem__(self, key)
                  IN  IF out.exc # NoExc THEN out ELSE Ok(out.self, got.val)

\* a popitem that takes the last pair, as dict.popitem may
popitem_last(self) ==
    IF keys(self) = <<>>
    THEN Raise(self, "KeyError", "container is empty")
    ELSE LET k == keys(self)[Len(keys(self))]
             out == __delitem__(self, k)
         IN  IF out.exc # NoExc THEN out ELSE Ok(out.self, <<k, self.dict[k]>>)

popitem(self) ==
    IF keys(self) = <<>>
    THEN Raise(self, "KeyError", "container is empty")
    ELSE LET got == dict__getitem__(self, keys(self)[1])
         IN  IF got.exc # NoExc THEN got
             ELSE LET out == __delitem__(self, keys(self)[1])
                  IN  IF out.exc # NoExc THEN out
                      ELSE Ok(out.self, <<keys(self)[1], got.val[1]>>)

----------------------------------------------------------------------------
(* update, __init__, copy *)

\* What update and SON(...) are handed.  shape is how the argument answers
\* the attribute tests of update: "None", "iteritems" (a SON or a dict),
\* "keys" (a mapping with keys() and indexing), "iterable" (anything else
\* that can be iterated) and "scalar" (anything else that cannot).  elems is
\* what iterating it yields; an element is [iterable, parts]: whether it can
\* be unpacked at all, and the items unpacking it gives.
Pair(k, v) == [iterable |-> TRUE, parts |-> <<k, v>>]

NoneArg == [shape |-> "None", elems |-> <<>>]

\* for k, v in elems: self[k] = v
RECURSIVE update_from(_, _)
update_from(self, elems) ==
    IF elems = <<>> THEN Ok(self, <<>>)
    ELSE LET e == Head(elems)
         IN  IF ~e.iterable
             THEN Raise(self, "TypeError", "object is not iterable")
             ELSE IF Len(e.parts) # 2
             THEN Raise(self, "ValueError", "wrong number of values to unpack")
             ELSE update_from(__setitem__(self, e.parts[1], e.parts[2]), Tail(elems))

\* update(self, other, **kwargs); kwitems is what kwargs.iteritems() yields
update(self, other, kwitems) ==
    LET first == CASE other.shape = "None" -> Ok(self, <<>>)
                   [] other.shape = "iteritems" -> update_from(self, other.elems)
                   [] other.shape = "keys" -> update_from(self, other.elems)
                   [] other.shape = "iterable" -> update_from(self, other.elems)
                   [] OTHER -> Raise(self, "TypeError", "object is not iterable")
    IN  IF first.exc # NoExc THEN first
        ELSE IF kwitems # <<>> THEN update_from(first.self, kwitems)
        ELSE first

\* SON(data, **kwargs)
__init__(data, kwitems) ==
    LET first == update(SON_empty, data, <<>>)
    IN  IF first.exc # NoExc THEN first
        ELSE update(first.self, [shape |-> "iteritems", elems |-> kwitems], <<>>)

\* a SON handed to update: it has iteritems
AsArg(other) ==
    [shape |-> "iteritems",
     elems |-> [i \in 1..Len(items(other)) |->
                   Pair(items(other)[i][1], items(other)[i][2])]]

\* a list of pairs handed to update
ListArg(pairs) ==
    [shape |-> "iterable",
     elems |-> [i \in 1..Len(pairs) |-> Pair(pairs[i][1], pairs[i][2])]]

copy(self) ==
    IF iteritems(self).exc # NoExc
    THEN [self |-> SON_empty, exc |-> iteritems(self).exc, val |-> <<>>]
    ELSE update(SON_empty, AsArg(self), <<>>)

----------------------------------------------------------------------------
(* __cmp__ and the built-in comparisons it rests on (Python 2's cmp) *)

Sign(n) == IF n < 0 THEN -1 ELSE IF n > 0 THEN 1 ELSE 0

\* cmp of two keys: strings compare by their text
str_cmp(a, b) ==
    LET order == <<"a", "b", "c">>
        rank(s) == CHOOSE i \in 1..Len(order) : order[i] = s
    IN  Sign(rank(a) - rank(b))

\* cmp of two lists of keys: the first place they differ, then the lengths
RECURSIVE list_cmp(_, _)
list_cmp(a, b) ==
    IF a = <<>> \/ b = <<>> THEN Sign(Len(a) - Len(b))
    ELSE IF Head(a) # Head(b) THEN str_cmp(Head(a), Head(b))
    ELSE list_cmp(Tail(a), Tail(b))

\* dict(pairs)
RECURSIVE dict_of(_)
dict_of(pairs) ==
    IF pairs = <<>> THEN EmptyDict
    ELSE LET rest == dict_of(SubSeq(pairs, 1, Len(pairs) - 1))
             last == pairs[Len(pairs)]
         IN  [k \in (DOMAIN rest) \cup {last[1]} |->
                 IF k = last[1] THEN last[2] ELSE rest[k]]

\* cmp of two dicts: the sizes, then the smallest key at which each differs
\* from the other, then the values at those keys
dict_cmp(a, b) ==
    LET differ(x, y) == {k \in DOMAIN x : k \notin DOMAIN y \/ x[k] # y[k]}
        smallest(S) == CHOOSE k \in S : \A j \in S : str_cmp(k, j) <= 0
    IN  IF Cardinality(DOMAIN a) # Cardinality(DOMAIN b)
        THEN Sign(Cardinality(DOMAIN a) - Cardinality(DOMAIN b))
        ELSE IF differ(a, b) = {} THEN 0
        ELSE LET adiff == smallest(differ(a, b))
                 bdiff == smallest(differ(b, a))
             IN  IF adiff # bdiff THEN str_cmp(adiff, bdiff)
                 ELSE Sign(a[adiff] - b[bdiff])

\* a comparison of the stored pairs alone, as dict's own
__cmp__dict_only(self, other) == dict_cmp(dict_of(items(self)), dict_of(items(other)))

\* __cmp__(self, other) for other a SON: cmp of the tuples
\* (dict(self.iteritems()), self.keys()) and the same of other
__cmp__(self, other) ==
    LET a == dict_of(items(self))
        b == dict_of(items(other))
    IN  IF a # b THEN dict_cmp(a, b) ELSE list_cmp(keys(self), keys(other))

----------------------------------------------------------------------------
(* The calls made on the document *)

SeqsUpTo(S, n) == UNION {[1..m -> S] : m \in 0..n}

PairElems == {Pair(k, v) : k \in ArgKeys, v \in Values}

\* elements that are no (key, value) pair: one that cannot be unpacked and
\* a 3-tuple
BadElems ==
    {[iterable |-> FALSE, parts |-> <<>>],
     [iterable |-> TRUE, parts |-> <<"a", 1, 1>>]}

\* what iterating a mapping yields: pairs with distinct keys
MappingItems ==
    {s \in SeqsUpTo(PairElems, Cardinality(ArgKeys)) :
        \A i, j \in 1..Len(s) : s[i].parts[1] = s[j].parts[1] => i = j}

\* the arguments of update
Sources ==
    {NoneArg, [shape |-> "scalar", elems |-> <<>>]}
    \cup {[shape |-> "iterable", elems |-> s] :
             s \in SeqsUpTo(PairElems \cup BadElems, MaxLen)}
    \cup {[shape |-> sh, elems |-> s] :
             sh \in {"iteritems", "keys"}, s \in MappingItems}

\* the keyword arguments, as the pairs kwargs.iteritems() yields: a dict
\* yields its pairs in an order the caller does not control
KwItems == MappingItems

\* (other, kwargs) of the calls of update: every source alone, keyword
\* arguments alone, and a one-element list together with a keyword argument
UpdateArgs ==
    {<<src, <<>>>> : src \in Sources}
    \cup {<<NoneArg, kw>> : kw \in KwItems}
    \cup {<<[shape |-> "iterable", elems |-> <<e>>], <<Pair("b", v)>>>> :
             e \in BadElems \cup {Pair("a", 1)}, v \in Values}

\* (data, kwargs) of the calls of SON(...): lists of pairs, a list with an
\* element that is no pair, and a list together with a keyword argument
InitArgs ==
    {<<[shape |-> "iterable", elems |-> s], <<>>>> : s \in MappingItems}
    \cup {<<[shape |-> "iterable", elems |-> <<Pair("a", 1), e>>], <<>>>> : e \in BadElems}
    \cup {<<[shape |-> "iterable", elems |-> <<Pair("a", 1)>>], <<Pair("b", v)>>>> :
             v \in Values}

\* the record of a call: its name, its key and value arguments, what it
\* raised or returned, and the document it built (SON(...), copy)
Call(op, key, args, out, doc) ==
    [op |-> op, key |-> key, args |-> args, exc |-> out.exc, val |-> out.val,
     doc |-> IF out.exc = NoExc THEN doc ELSE SON_empty]

\* the history of insertions after self[key] = ... on present keys
Inserted(hist, present, key) ==
    IF key \in present THEN hist
    ELSE hist \cup {<<j, key>> : j \in present}

RECURSIVE InsertedAll(_, _, _)
InsertedAll(hist, present, elems) ==
    IF elems = <<>> \/ ~Head(elems).iterable \/ Len(Head(elems).parts) # 2
    THEN hist
    ELSE LET k == Head(elems).parts[1]
         IN  InsertedAll(Inserted(hist, present, k), present \cup {k}, Tail(elems))

\* the history of insertions once only the keys of left are stored
Removed(hist, left) == {p \in hist : p[1] \in left /\ p[2] \in left}

Stored(self) == DOMAIN self.dict

Rest == UNCHANGED <<xml, decoded, value, converted>>

DoSetItem(k, v) ==
    /\ son' = __setitem__(son, k, v)
    /\ ret' = Call("set", k, <<v>>, Ok(son', <<>>), SON_empty)
    /\ before' = Inserted(before, Stored(son), k)
    /\ Rest

DoDelItem(k) ==
    LET out == __delitem__(son, k)
    IN  /\ son' = out.self
        /\ ret' = Call("delete", k, <<>>, out, SON_empty)
        /\ before' = Removed(before, Stored(son'))
        /\ Rest

DoSetDefault(k, v) ==
    LET out == setdefault(son, k, v)
    IN  /\ son' = out.self
        /\ ret' = Call("setdefault", k, <<v>>, out, SON_empty)
        /\ before' = Inserted(before, Stored(son), k)
        /\ Rest

DoPop(k, args) ==
    LET out == pop(son, k, args)
    IN  /\ son' = out.self
        /\ ret' = Call("pop", k, args, out, SON_empty)
        /\ before' = Removed(before, Stored(son'))
        /\ Rest

DoPopItem ==
    LET out == popitem(son)
    IN  /\ son' = out.self
        /\ ret' = Call("popitem", "", <<>>, out, SON_empty)
        /\ before' = Removed(before, Stored(son'))
        /\ Rest

DoClear ==
    LET out == clear(son)
    IN  /\ son' = out.self
        /\ ret' = Call("clear", "", <<>>, out, SON_empty)
        /\ before' = Removed(before, Stored(son'))
        /\ Rest

DoUpdate(other, kwitems) ==
    LET out == update(son, other, kwitems)
        first == InsertedAll(before, Stored(son), other.elems)
    IN  /\ son' = out.self
        /\ ret' = Call("update_" \o other.shape, "", <<>>, out, SON_empty)
        /\ before' = IF out.exc # NoExc THEN first
                     ELSE InsertedAll(first, Stored(update(son, other, <<>>).self),
                                      kwitems)
        /\ Rest

\* d.copy(), kept beside d
DoCopy ==
    LET out == copy(son)
    IN  /\ ret' = Call("copy", "", <<>>, out, out.self)
        /\ UNCHANGED <<son, before>>
        /\ Rest

\* SON(d.items()), kept beside d
DoFromItems ==
    LET out == __init__(ListArg(items(son)), <<>>)
    IN  /\ ret' = Call("SON_items", "", <<>>, out, out.self)
        /\ UNCHANGED <<son, before>>
        /\ Rest

\* SON(data, **kwargs) for any data, kept beside d
DoConstruct(data, kwitems) ==
    LET out == __init__(data, kwitems)
    IN  /\ ret' = Call("SON", "", <<>>, out, out.self)
        /\ UNCHANGED <<son, before>>
        /\ Rest

\* nothing has been handed to from_xml
NoXml == [tag |-> "", attrib_name |-> <<>>, text |-> <<>>, children |-> <<>>]

NotDecoded == [done |-> FALSE, exc |-> NoExc, val |-> <<>>, seen |-> <<>>]

\* to_dict has not been called
NotConverted == [kind |-> "unset"]

NoCall == Call("", "", <<>>, Ok(SON_empty, <<>>), SON_empty)

Init ==
    /\ son = SON_empty
    /\ ret = NoCall
    /\ before = {}
    /\ xml = NoXml
    /\ decoded = NotDecoded
    /\ value = SON_empty
    /\ converted = NotConverted

Next ==
    \/ \E k \in Keys, v \in Values : DoSetItem(k, v)
    \/ \E k \in Keys : DoDelItem(k)
    \/ \E k \in Keys, v \in Values : DoSetDefault(k, v)
    \/ \E k \in Keys, args \in SeqsUpTo(Values, 2) : DoPop(k, args)
    \/ DoPopItem
    \/ DoClear
    \/ \E a \in UpdateArgs : DoUpdate(a[1], a[2])
    \/ DoCopy
    \/ DoFromItems
    \/ \E a \in InitArgs : DoConstruct(a[1], a[2])

Spec == Init /\ [][Next]_vars

----------------------------------------------------------------------------
(* Claims about the container *)

Index(list) == 1..Len(list)

\* C1 (state part): keys() lists the stored keys in the order in which each
\* was inserted while absent, and values() and items() are aligned with it.
C1_Order ==
    LET ks == keys(son)
    IN  /\ {ks[i] : i \in Index(ks)} = Stored(son)
        /\ \A i, j \in Index(ks) : i < j <=> <<ks[i], ks[j]>> \in before
        /\ Len(values(son)) = Len(ks) /\ Len(items(son)) = Len(ks)
        /\ \A i \in Index(ks) :
              /\ values(son)[i] = get(son, ks[i], 0)
              /\ items(son)[i] = <<ks[i], values(son)[i]>>

\* C1 (step part): setting a key that is present overwrites its value and
\* leaves keys() as it was.
C1_Reset ==
    (ret'.op = "set" /\ ret'.key \in Stored(son)) =>
        /\ keys(son') = keys(son)
        /\ get(son', ret'.key, 0) = ret'.args[1]
        /\ \A k \in Stored(son) \ {ret'.key} : get(son', k, 0) = get(son, k, 0)

\* C1: for any sequence of calls, keys() lists the surviving keys in the
\* order in which each was inserted while absent; re-setting a present key
\* overwrites its value without moving it; values() and items() are
\* positionally aligned with keys().
C1_InsertionOrder == [](C1_Order) /\ [][C1_Reset]_vars

\* a key deleted and set again has moved behind the keys that stayed, and a
\* present key has just been set again
C1_Witness ==
    /\ ret.op = "set" /\ ret.key = "c"
    /\ keys(son) = <<"b", "c", "a">>
    /\ values(son) = <<1, 2, 1>>

\* C2: the list of keys holds no key twice and holds exactly the keys the
\* dict part stores, so len() is the number of stored keys and "key in d"
\* holds exactly when looking the key up finds a value.
C2_KeysMatchLookup ==
    LET ks == keys(son)
    IN  /\ \A i, j \in Index(ks) : ks[i] = ks[j] => i = j
        /\ {ks[i] : i \in Index(ks)} = Stored(son)
        /\ __len__(son) = Cardinality(Stored(son))
        /\ \A k \in Keys :
              /\ __contains__(son, k) <=> dict__getitem__(son, k).exc = NoExc
              /\ has_key(son, k) <=> get(son, k, 0) # 0

\* a call has just failed on a document that stores keys
C2_Witness ==
    /\ ret.op = "update_iterable" /\ ret.exc # NoExc
    /\ Len(keys(son)) = 3

\* C3 as claimed: removing an absent key fails with KeyError for delete and
\* for pop without a default, returns the default for pop with one, and
\* leaves the document as it was.
C3_RemoveAbsent ==
    [][(ret'.op \in {"delete", "pop"} /\ Len(ret'.args) <= 1
        /\ ret'.key \notin Stored(son)) =>
           /\ son' = son
           /\ ret'.op = "delete" => ret'.exc = <<"KeyError", ret'.key>>
           /\ (ret'.op = "pop" /\ ret'.args = <<>>) => ret'.exc = <<"KeyError", ret'.key>>
           /\ (ret'.op = "pop" /\ ret'.args # <<>>) =>
                 ret'.exc = NoExc /\ ret'.val = ret'.args]_vars

\* C4: popitem on a document with entries removes and returns the pair of
\* the first key of keys() and leaves the other keys in their order with
\* their values; on an empty document it raises KeyError('container is
\* empty') and the document stays empty.
C4_PopItemFirst ==
    [][ret'.op = "popitem" =>
          IF keys(son) = <<>>
          THEN ret'.exc = <<"KeyError", "container is empty">> /\ keys(son') = <<>>
               /\ son' = son
          ELSE /\ ret'.exc = NoExc
               /\ ret'.val = <<keys(son)[1], get(son, keys(son)[1], 0)>>
               /\ keys(son') = Tail(keys(son))
               /\ values(son') = Tail(values(son))
               /\ items(son') = Tail(items(son))]_vars

\* the first of three pairs has just been popped
C4_Witness ==
    /\ ret.op = "popitem" /\ ret.val = <<"b", 2>>
    /\ items(son) = << <<"c", 1>>, <<"a", 2>> >>

SameKeysValuesOrder(d, e) == keys(d) = keys(e) /\ values(d) = values(e)

\* C5: SON(d.items()) and d.copy() compare equal to d, and two SONs compare
\* equal (cmp is 0) exactly when they have the same keys, the same values
\* and the same order of keys.
C5_CopyEqual ==
    /\ ret.op \in {"copy", "SON_items"} =>
          /\ ret.exc = NoExc
          /\ __cmp__(son, ret.doc) = 0 /\ __cmp__(ret.doc, son) = 0
          /\ SameKeysValuesOrder(son, ret.doc)
    /\ (ret.op = "SON" /\ ret.exc = NoExc) =>
          /\ __cmp__(son, ret.doc) = 0 <=> SameKeysValuesOrder(son, ret.doc)
          /\ __cmp__(ret.doc, son) = 0 <=> SameKeysValuesOrder(son, ret.doc)

\* a document with the same pairs in another order compares unequal
C5_Witness ==
    /\ ret.op = "SON" /\ ret.exc = NoExc
    /\ items(son) = << <<"a", 1>>, <<"b", 2>> >>
    /\ items(ret.doc) = << <<"b", 2>>, <<"a", 1>> >>
    /\ __cmp__(son, ret.doc) # 0

\* C6 as claimed: an update that fails on its argument leaves the keys,
\* their order and their values as they were.
C6_UpdateNoPartialEffect ==
    [][(ret'.op \in {"update_scalar", "update_iterable"} /\ ret'.exc # NoExc) =>
           /\ ret'.exc[1] \in {"TypeError", "ValueError"}
           /\ son' = son]_vars

----------------------------------------------------------------------------
(* from_xml: the element tree *)

\* An element of the parsed tree (xml.etree.ElementTree):
\*   tag          its tag, a string
\*   attrib_name  <<>> when it has no name attribute, else <<the name>>
\*   text         <<>> when it has no text (None), else <<the text>>
\*   children     the sequence of its child elements
\* Names and texts are sequences of one-character strings.
Element(tag, attrib_name, text, children) ==
    [tag |-> tag, attrib_name |-> attrib_name, text |-> text, children |-> children]

\* The outcome of a decoding rule: exc is <<>> or <<type, arg>>, val is <<>>
\* or <<the value>>, and seen lists the tags make_elem was called on, in the
\* order of the calls (a history the rules themselves never read).
Return(v, seen) == [exc |-> NoExc, val |-> <<v>>, seen |-> seen]

Throw(type, arg, seen) == [exc |-> <<type, arg>>, val |-> <<>>, seen |-> seen]

\* Python values
PyNone == [kind |-> "None"]

PyInt(n) == [kind |-> "int", n |-> n]

PyBool(b) == [kind |-> "bool", b |-> b]

PyUnicode(chars) == [kind |-> "unicode", chars |-> chars]

PyList(elems) == [kind |-> "list", elems |-> elems]

\* a value of one of the wrapper classes built from a text
PyWrapped(kind, chars) == [kind |-> kind, chars |-> chars]

\* int(chars): surrounding blanks are dropped, a sign is allowed, and what is
\* left has to be decimal digits
Digits == <<"0", "1", "2", "3", "4", "5", "6", "7", "8", "9">>

IsDigit(c) == \E i \in 1..Len(Digits) : Digits[i] = c

DigitValue(c) == (CHOOSE i \in 1..Len(Digits) : Digits[i] = c) - 1

RECURSIVE strip(_)
strip(chars) ==
    IF chars # <<>> /\ Head(chars) = " " THEN strip(Tail(chars))
    ELSE IF chars # <<>> /\ chars[Len(chars)] = " "
    THEN strip(SubSeq(chars, 1, Len(chars) - 1))
    ELSE chars

RECURSIVE digits_value(_, _)
digits_value(chars, acc) ==
    IF chars = <<>> THEN acc
    ELSE digits_value(Tail(chars), 10 * acc + DigitValue(Head(chars)))

int(chars) ==
    LET s == strip(chars)
        signed == s # <<>> /\ Head(s) \in {"-", "+"}
        body == IF signed THEN Tail(s) ELSE s
    IN  IF body = <<>> \/ \E i \in 1..Len(body) : ~IsDigit(body[i])
        THEN Throw("ValueError", "invalid literal for int()", <<>>)
        ELSE Return(IF signed /\ Head(s) = "-"
                    THEN 0 - digits_value(body, 0) ELSE digits_value(body, 0), <<>>)

\* a pad that stops one entry short of the index
RECURSIVE pad_short(_, _)
pad_short(list, index) ==
    IF index > Len(list) THEN pad_short(Append(list, PyNone), index) ELSE list

\* pad(list, index): append None while index >= len(list)
RECURSIVE pad(_, _)
pad(list, index) ==
    IF index >= Len(list) THEN pad(Append(list, PyNone), index) ELSE list

\* list[index] = value, index counted from 0, a negative one from the end
list_setitem(list, index, val) ==
    LET at == IF index < 0 THEN index + Len(list) ELSE index
    IN  IF at < 0 \/ at >= Len(list)
        THEN Throw("IndexError", "list assignment index out of range", <<>>)
        ELSE Return([list EXCEPT ![at + 1] = val], <<>>)

\* the tags of the dispatch table of make_elem
DispatchTags ==
    {"array", "doc", "string", "binary", "boolean", "code", "date", "ref", "ns",
     "oid", "int", "null", "number", "regex", "pattern", "options"}

\* the exception classes "except KeyError" catches: UnsupportedTag is an
\* error kind of its own, not a KeyError
IsKeyError(type) == type = "KeyError"

\* the bits of the flags of re
re_flag(c) ==
    CASE c = "i" -> 2 [] c = "l" -> 4 [] c = "m" -> 8
      [] c = "s" -> 16 [] c = "u" -> 32 [] c = "x" -> 64 [] OTHER -> 0

make_string(string) ==
    Return(PyUnicode(IF string.text # <<>> THEN string.text[1] ELSE <<>>), <<>>)

make_code(code) ==
    Return(PyWrapped("Code", IF code.text # <<>> THEN code.text[1] ELSE <<>>), <<>>)

make_boolean(bool) ==
    Return(PyBool(bool.text = << <<"t", "r", "u", "e">> >>), <<>>)

make_int(data) ==
    IF data.text = <<>>
    THEN Throw("TypeError", "int() argument must be a string or a number", <<>>)
    ELSE LET n == int(data.text[1])
         IN  IF n.exc # NoExc THEN n ELSE Return(PyInt(n.val[1]), <<>>)

make_null(null) == Return(PyNone, <<>>)

\* options |= flag for each of the letters i, l, m, s, u, x the text holds
make_options(data) ==
    LET chars == IF data.text = <<>> THEN <<>> ELSE data.text[1]
        flags == {re_flag(chars[i]) : i \in 1..Len(chars)} \ {0}
        RECURSIVE sum(_)
        sum(S) == IF S = {} THEN 0
                  ELSE LET x == CHOOSE x \in S : TRUE IN x + sum(S \ {x})
    IN  Return(PyInt(sum(flags)), <<>>)

\* binary, date, oid and number: the text handed to base64.decodestring,
\* float and binascii.unhexlify; without a text binary is empty and the
\* others fail
make_scalar(elem) ==
    IF elem.text = <<>> /\ elem.tag # "binary"
    THEN Throw("TypeError", "a string is required", <<>>)
    ELSE Return(PyWrapped(elem.tag, IF elem.text = <<>> THEN <<>> ELSE elem.text[1]), <<>>)

RECURSIVE make_elem(_), make_doc(_), make_doc_from(_, _, _), make_array(_),
          make_array_from(_, _, _), make_ref(_), make_regex(_), make_pair(_)

\* the rule the table gives for the element's tag, applied to the element
make_rule(elem) ==
    CASE elem.tag = "array" -> make_array(elem)
      [] elem.tag = "doc" -> make_doc(elem)
      [] elem.tag \in {"string", "ns", "pattern"} -> make_string(elem)
      [] elem.tag = "boolean" -> make_boolean(elem)
      [] elem.tag = "code" -> make_code(elem)
      [] elem.tag = "ref" -> make_ref(elem)
      [] elem.tag = "int" -> make_int(elem)
      [] elem.tag = "null" -> make_null(elem)
      [] elem.tag = "regex" -> make_regex(elem)
      [] elem.tag = "options" -> make_options(elem)
      [] OTHER -> make_scalar(elem)

\* a make_elem that reports a failure below it under its own tag
make_elem_renaming(elem) ==
    IF elem.tag \notin DispatchTags
    THEN Throw("UnsupportedTag", elem.tag, <<elem.tag>>)
    ELSE LET out == make_rule(elem)
         IN  IF out.exc # NoExc
             THEN Throw("UnsupportedTag", elem.tag, <<elem.tag>> \o out.seen)
             ELSE [out EXCEPT !.seen = <<elem.tag>> \o out.seen]

\* make_elem(elem): the table lookup and the call of the rule are both inside
\* the try, so a KeyError of either is raised again as UnsupportedTag
make_elem(elem) ==
    IF elem.tag \notin DispatchTags
    THEN Throw("UnsupportedTag", elem.tag, <<elem.tag>>)
    ELSE LET out == make_rule(elem)
         IN  IF out.exc # NoExc /\ IsKeyError(out.exc[1])
             THEN Throw("UnsupportedTag", elem.tag, <<elem.tag>> \o out.seen)
             ELSE [out EXCEPT !.seen = <<elem.tag>> \o out.seen]

\* for elem in doc: son[elem.attrib["name"]] = make_elem(elem); the right
\* side is evaluated before the subscript
make_doc_from(self, elems, seen) ==
    IF elems = <<>> THEN Return(self, seen)
    ELSE LET elem == Head(elems)
             out == make_elem(elem)
         IN  IF out.exc # NoExc THEN [out EXCEPT !.seen = seen \o out.seen]
             ELSE IF elem.attrib_name = <<>>
             THEN Throw("KeyError", "name", seen \o out.seen)
             ELSE make_doc_from(__setitem__(self, elem.attrib_name[1], out.val[1]),
                                Tail(elems), seen \o out.seen)

make_doc(doc) == make_doc_from(SON_empty, doc.children, <<>>)

\* for (key, value) in doc.items(): pad and store at int(key)
make_array_from(array, pairs, seen) ==
    IF pairs = <<>> THEN Return(PyList(array), seen)
    ELSE LET index == int(Head(pairs)[1])
         IN  IF index.exc # NoExc THEN [index EXCEPT !.seen = seen]
             ELSE LET stored == list_setitem(pad(array, index.val[1]), index.val[1],
                                             Head(pairs)[2])
                  IN  IF stored.exc # NoExc THEN [stored EXCEPT !.seen = seen]
                      ELSE make_array_from(stored.val[1], Tail(pairs), seen)

make_array(array) ==
    LET doc == make_doc(array)
    IN  IF doc.exc # NoExc THEN doc
        ELSE make_array_from(<<>>, items(doc.val[1]), doc.seen)

\* make_elem(elem[0]), then make_elem(elem[1]): the two arguments of DBRef
\* and of re.compile
make_pair(elem) ==
    IF Len(elem.children) < 1
    THEN Throw("IndexError", "child index out of range", <<>>)
    ELSE LET first == make_elem(elem.children[1])
         IN  IF first.exc # NoExc THEN first
             ELSE IF Len(elem.children) < 2
             THEN Throw("IndexError", "child index out of range", first.seen)
             ELSE LET second == make_elem(elem.children[2])
                  IN  IF second.exc # NoExc
                      THEN [second EXCEPT !.seen = first.seen \o second.seen]
                      ELSE Return(<<first.val[1], second.val[1]>>,
                                  first.seen \o second.seen)

make_ref(dbref) ==
    LET args == make_pair(dbref)
    IN  IF args.exc # NoExc THEN args
        ELSE Return([kind |-> "DBRef", collection |-> args.val[1][1],
                     id |-> args.val[1][2]], args.seen)

make_regex(regex) ==
    LET args == make_pair(regex)
    IN  IF args.exc # NoExc THEN args
        ELSE Return([kind |-> "regex", pattern |-> args.val[1][1],
                     flags |-> args.val[1][2]], args.seen)

\* from_xml(xml): tree is the parsed document, tree[1] the doc element
from_xml(tree) ==
    IF Len(tree.children) < 2
    THEN Throw("IndexError", "child index out of range", <<>>)
    ELSE make_doc(tree.children[2])

----------------------------------------------------------------------------
(* The trees handed to from_xml *)

\* the most children an element of a generated tree has
MaxChildren == 2

\* how many container elements are nested around the leaves
MaxDepth == 2

\* the most children the array of a generated array document has
MaxArrayChildren == 3

Named(chars) == <<chars>>

NoAttr == <<>>

Text(chars) == <<chars>>

NoText == <<>>

\* elements without children: well-formed ones, an int with a malformed
\* text, elements without a name attribute and elements with an unknown tag
Leaves ==
    {Element("int", Named(<<"a">>), Text(<<"5">>), <<>>),
     Element("int", NoAttr, Text(<<"5">>), <<>>),
     Element("int", Named(<<"b">>), Text(<<"x">>), <<>>),
     Element("null", Named(<<"b">>), NoText, <<>>),
     Element("foo", Named(<<"a">>), NoText, <<>>),
     Element("foo", NoAttr, NoText, <<>>),
     Element("pattern", Named(<<"a">>), Text(<<"^", "a">>), <<>>),
     Element("options", Named(<<"b">>), Text(<<"i", "m">>), <<>>)}

\* elements with up to MaxChildren leaves below them
Containers ==
    {Element(t, n, NoText, c) :
        t \in {"doc", "array", "ref", "regex", "bar"},
        n \in {Named(<<"a">>), NoAttr},
        c \in SeqsUpTo(Leaves, MaxChildren)}

\* one more element around an element
Wrapped(S) ==
    {Element(t, Named(<<"a">>), NoText, <<e>>) : t \in {"doc", "array"}, e \in S}

RECURSIVE Elements(_)
Elements(depth) ==
    IF depth = 0 THEN Leaves
    ELSE IF depth = 1 THEN Leaves \cup Containers
    ELSE Elements(depth - 1) \cup Wrapped(Elements(depth - 1))

\* the parsed document: a root whose first child is skipped and whose second
\* child is the doc element
Meta == Element("ns", NoAttr, Text(<<"t">>), <<>>)

Tree(children) == Element("twonk", NoAttr, NoText, <<Meta, Element("doc", NoAttr, NoText, children)>>)

\* the children of an array: the names are decimal indices, one of them
\* written with a leading zero, a negative number and a word
ArrayNames == {<<"0">>, <<"0", "0">>, <<"1">>, <<"2">>, <<"-", "1">>, <<"x">>}

ArrayChildren ==
    {Element("int", Named(n), Text(t), <<>>) : n \in ArrayNames, t \in {<<"5">>, <<"7">>}}

\* a document whose one entry is an array
ArrayTree(children) == Tree(<<Element("array", Named(<<"a">>), NoText, children)>>)

\* xml is one of the generated documents: a nest of elements, a flat
\* document, an array document, or a tree without a doc element
IsXmlInput(tree) ==
    \/ \E e \in Elements(MaxDepth) : tree = Tree(<<e>>)
    \/ \E c \in SeqsUpTo(Leaves, MaxChildren) : tree = Tree(c)
    \/ \E c \in SeqsUpTo(ArrayChildren, MaxArrayChildren) : tree = ArrayTree(c)
    \/ tree = Element("twonk", NoAttr, NoText, <<Meta>>)



\* SON.from_xml(xml)
DoFromXml ==
    /\ ~decoded.done
    /\ decoded' = [done |-> TRUE, exc |-> from_xml(xml).exc, val |-> from_xml(xml).val,
                   seen |-> from_xml(xml).seen]
    /\ UNCHANGED <<son, ret, before, xml, value, converted>>

InitXml ==
    /\ son = SON_empty
    /\ ret = NoCall
    /\ before = {}
    /\ IsXmlInput(xml)
    /\ decoded = NotDecoded
    /\ value = SON_empty
    /\ converted = NotConverted

NextXml == DoFromXml

SpecXml == InitXml /\ [][NextXml]_vars

----------------------------------------------------------------------------
(* Claims about the decoder *)

\* C7: when make_elem has been called on an element whose tag is not in the
\* table, at whatever depth, the decode fails with UnsupportedTag naming
\* that tag and returns no document.
C7_UnknownTagFails ==
    decoded.done =>
        \A i \in Index(decoded.seen) :
            decoded.seen[i] \notin DispatchTags =>
                decoded.exc = <<"UnsupportedTag", decoded.seen[i]>> /\ decoded.val = <<>>

\* an unknown tag three elements deep has ended the decode
C7_Witness ==
    /\ decoded.done
    /\ decoded.seen = <<"doc", "array", "foo">>
    /\ decoded.exc = <<"UnsupportedTag", "foo">>

\* the tags of an element and of everything below it
RECURSIVE TagsOf(_)
TagsOf(elem) ==
    {elem.tag} \cup UNION {TagsOf(elem.children[i]) : i \in Index(elem.children)}

\* C10 as claimed: when every tag of the tree is in the table, no failure of
\* the decode is reported as UnsupportedTag.
C10_OnlyUnknownTags ==
    (decoded.done /\ Len(xml.children) = 2
     /\ \A i \in Index(xml.children[2].children) :
           TagsOf(xml.children[2].children[i]) \subseteq DispatchTags)
        => ~Raised(decoded, "UnsupportedTag")

\* the array of an array document, its children and the list decoded
TheArray == xml.children[2].children[1]

\* the document has one entry, an array whose children all have a name
\* attribute and decode to a value
IsArrayDocument ==
    /\ Len(xml.children) = 2 /\ Len(xml.children[2].children) = 1
    /\ TheArray.tag = "array" /\ TheArray.attrib_name = Named(<<"a">>)
    /\ \A i \in Index(TheArray.children) :
          /\ TheArray.children[i].attrib_name # NoAttr
          /\ make_elem(TheArray.children[i]).exc = NoExc

\* the index a child names, and whether every child names one
IndexOf(child) == int(child.attrib_name[1]).val[1]

NamesAreIndices ==
    \A i \in Index(TheArray.children) :
        LET n == int(TheArray.children[i].attrib_name[1])
        IN  n.exc = NoExc /\ n.val[1] >= 0

ValueOf(child) == make_elem(child).val[1]

\* the children naming index p
Naming(p) == {i \in Index(TheArray.children) : IndexOf(TheArray.children[i]) = p}

Largest(S) == CHOOSE x \in S : \A y \in S : y <= x

Smallest(S) == CHOOSE x \in S : \A y \in S : x <= y

\* the list is dense: one longer than the largest index named, with None at
\* every index no child names
DenseWith(list, winner(_)) ==
    /\ Len(list) = IF TheArray.children = <<>> THEN 0
                   ELSE 1 + Largest({IndexOf(TheArray.children[i]) :
                                        i \in Index(TheArray.children)})
    /\ \A p \in 0..(Len(list) - 1) :
          list[p + 1] = IF Naming(p) = {} THEN PyNone
                        ELSE ValueOf(TheArray.children[winner(p)])

\* C8 as claimed: of the children naming the same index the later one wins.
C8_LaterChildWins ==
    (decoded.done /\ IsArrayDocument /\ NamesAreIndices) =>
        /\ decoded.exc = NoExc
        /\ LET LastNaming(p) == Largest(Naming(p))
           IN  DenseWith(decoded.val[1].dict[<<"a">>].elems, LastNaming)

\* the children with the same name attribute as child i
SameName(i) ==
    {j \in Index(TheArray.children) :
        TheArray.children[j].attrib_name = TheArray.children[i].attrib_name}

\* of the children naming index p, the last one with the name that came up
\* last for the first time
LastNewName(p) ==
    LET newest == CHOOSE i \in Naming(p) :
                      \A j \in Naming(p) : Smallest(SameName(j)) <= Smallest(SameName(i))
    IN  Largest(SameName(newest))

\* C8, amended: the list is dense with None at the indices not named; of the
\* children naming the same index, the name that first appears latest wins,
\* with the value of the last child of that name.
C8_DenseArray ==
    (decoded.done /\ IsArrayDocument /\ NamesAreIndices) =>
        /\ decoded.exc = NoExc
        /\ DenseWith(decoded.val[1].dict[<<"a">>].elems, LastNewName)

\* names "0" and "2" and no "1": the list has None in the middle
C8_Witness ==
    /\ decoded.done /\ IsArrayDocument /\ NamesAreIndices
    /\ Len(TheArray.children) = 2
    /\ TheArray.children[1].attrib_name = Named(<<"2">>)
    /\ TheArray.children[2].attrib_name = Named(<<"0">>)
    /\ decoded.val[1].dict[<<"a">>].elems = <<PyInt(7), PyNone, PyInt(5)>>

----------------------------------------------------------------------------
(* to_dict *)

\* dict(mapping) for a SON or a dict: a new plain dict of its stored pairs
dict_new(mapping) == [kind |-> "dict", dict |-> mapping.dict]

\* a transform_value that does not walk lists
RECURSIVE transform_value_no_lists(_)
transform_value_no_lists(val) ==
    LET plain == IF val.kind = "SON" THEN dict_new(val) ELSE val
    IN  IF plain.kind = "dict"
        THEN [plain EXCEPT !.dict = [k \in DOMAIN plain.dict |->
                                        transform_value_no_lists(plain.dict[k])]]
        ELSE plain

\* transform_value(value): a list gives a new list; a SON is replaced by a
\* dict of its pairs; the entries of a dict are transformed in place
RECURSIVE transform_value(_)
transform_value(val) ==
    IF val.kind = "list"
    THEN PyList([i \in 1..Len(val.elems) |-> transform_value(val.elems[i])])
    ELSE LET plain == IF val.kind = "SON" THEN dict_new(val) ELSE val
         IN  IF plain.kind = "dict"
             THEN [plain EXCEPT !.dict = [k \in DOMAIN plain.dict |->
                                             transform_value(plain.dict[k])]]
             ELSE plain

to_dict(self) == transform_value(dict_new(self))

\* what the document handed to to_dict holds afterwards: the plain dicts
\* inside it have had their entries transformed in place, its lists and its
\* SONs are the objects they were
RECURSIVE after_to_dict(_)
after_to_dict(val) ==
    CASE val.kind = "list" ->
            PyList([i \in 1..Len(val.elems) |-> after_to_dict(val.elems[i])])
      [] val.kind = "SON" ->
            [val EXCEPT !.dict = [k \in DOMAIN val.dict |-> after_to_dict(val.dict[k])]]
      [] val.kind = "dict" -> transform_value(val)
      [] OTHER -> val

\* the most entries of a generated list
MaxItems == 2

\* how many containers are nested around the scalars of a generated value
MaxNest == 3

DocKeys == {"a", "b"}

Scalars == {PyInt(1), PyNone}

\* SON(pairs)
SONOf(pairs) == __init__(ListArg(pairs), <<>>).self

\* the sequences of pairs with distinct keys
PairLists(S) ==
    {p \in SeqsUpTo(DocKeys \X S, Cardinality(DocKeys)) :
        \A i, j \in Index(p) : p[i][1] = p[j][1] => i = j}

\* the SONs, dicts and lists that hold values of S
Flat(S) ==
    {SONOf(p) : p \in PairLists(S)}
    \cup {dict_new(SONOf(p)) : p \in PairLists(S)}
    \cup {PyList(l) : l \in SeqsUpTo(S, MaxItems)}

\* one more container around a value of S
Around(S) ==
    {PyList(<<v>>) : v \in S}
    \cup {PyList(<<PyInt(1), v>>) : v \in S}
    \cup {SONOf(<< <<"a", v>> >>) : v \in S}
    \cup {SONOf(<< <<"b", PyNone>>, <<"a", v>> >>) : v \in S}
    \cup {dict_new(SONOf(<< <<"a", v>> >>)) : v \in S}

RECURSIVE Nested(_)
Nested(depth) ==
    IF depth = 0 THEN Scalars
    ELSE IF depth = 1 THEN Scalars \cup Flat(Scalars)
    ELSE Nested(depth - 1) \cup Around(Nested(depth - 1))

\* d.to_dict()
DoToDict ==
    /\ converted = NotConverted
    /\ converted' = to_dict(value)
    /\ value' = after_to_dict(value)
    /\ UNCHANGED <<son, ret, before, xml, decoded>>

InitToDict ==
    /\ son = SON_empty
    /\ ret = NoCall
    /\ before = {}
    /\ xml = NoXml
    /\ decoded = NotDecoded
    /\ \/ \E v \in Nested(MaxNest) : value = SONOf(<< <<"a", v>> >>)
       \/ \E v, w \in Nested(1) : value = SONOf(<< <<"b", v>>, <<"a", w>> >>)
    /\ converted = NotConverted

NextToDict == DoToDict

SpecToDict == InitToDict /\ [][NextToDict]_vars

----------------------------------------------------------------------------
(* Claims about to_dict *)

\* no SON in val, at any depth of lists, dicts and SONs
RECURSIVE NoSON(_)
NoSON(val) ==
    CASE val.kind = "SON" -> FALSE
      [] val.kind = "dict" -> \A k \in DOMAIN val.dict : NoSON(val.dict[k])
      [] val.kind = "list" -> \A i \in Index(val.elems) : NoSON(val.elems[i])
      [] OTHER -> TRUE

\* out is val with every SON and dict turned into a dict of the same keys,
\* every list kept at its length and every other value kept as it is
RECURSIVE Flattened(_, _)
Flattened(val, out) ==
    CASE val.kind \in {"SON", "dict"} ->
            /\ out.kind = "dict"
            /\ DOMAIN out.dict = DOMAIN val.dict
            /\ \A k \in DOMAIN out.dict : Flattened(val.dict[k], out.dict[k])
      [] val.kind = "list" ->
            /\ out.kind = "list"
            /\ Len(out.elems) = Len(val.elems)
            /\ \A i \in Index(val.elems) : Flattened(val.elems[i], out.elems[i])
      [] OTHER -> out = val

\* C9: to_dict returns a tree with no SON at any depth: every SON or dict,
\* in a document or in a list, has become a dict with the same keys and
\* converted values, lists keep their length and positions, and other values
\* pass through unchanged.
C9_ToDictFlattens ==
    [][(converted = NotConverted /\ converted' # NotConverted) =>
           NoSON(converted') /\ Flattened(value, converted')]_vars

\* a SON inside a list inside a list has become a dict
C9_Witness ==
    /\ converted # NotConverted
    /\ value.dict["a"].kind = "list"
    /\ Len(value.dict["a"].elems) = 1
    /\ value.dict["a"].elems[1].kind = "list"
    /\ Len(value.dict["a"].elems[1].elems) = 1
    /\ value.dict["a"].elems[1].elems[1].kind = "SON"
    /\ value.dict["a"].elems[1].elems[1].__keys = <<"b", "a">>
    /\ converted.dict["a"].elems[1].elems[1].kind = "dict"

====
